---- MODULE Spec2Model ----
(***************************************************************************)
(* Model of the concentrated-liquidity fee reader: the 256-bit wrapping    *)
(* subtraction (utils.subIn256), the fee engine                            *)
(* (CLMM.calculateUncollectedFees) and the wallet scan                     *)
(* (CLMM.getPositionsForWallet).                                           *)
(*                                                                         *)
(* Widths are scaled: a u128 has HalfBits bits and a u256 has 2*HalfBits   *)
(* bits, so Q128 = 2^HalfBits and MAX_UINT256 = 2^(2*HalfBits) - 1.        *)
(* Decimal strings (liquidity, tokensOwed, ids) are sequences of digits.   *)
(***************************************************************************)
EXTENDS Integers, Sequences, FiniteSets

VARIABLES
  \* subIn256 applied to one pair of arguments
  subPc, subX, subY, subResult,
  \* CLMM.calculateUncollectedFees: one call
  feePc, position, pool, tickLowerFees, tickUpperFees, calc, fees, ticksCalls, history,
  \* CLMM.getPositionsForWallet: one call
  scanPc, balance, i, tokenId, positions, attempts, failedCall, scanCalls,
  \* one manager instance (HyperSwapManager or KittenswapManager), the chain it
  \* reads, and the operations started on it
  kind, schedule, chain, factoryAddress, factoryContract, ops,
  \* the pool's state on chain while one fee query reads it, and the states it
  \* has been in since the query's first read
  poolChain, chainSeen,
  \* the results of the fee routines run on one set of arguments
  routines

subVars == <<subPc, subX, subY, subResult>>
feeVars == <<feePc, position, pool, tickLowerFees, tickUpperFees, calc, fees, ticksCalls, history>>
scanVars == <<scanPc, balance, i, tokenId, positions, attempts, failedCall, scanCalls>>
adVars == <<kind, schedule, chain, factoryAddress, factoryContract, ops>>
snapVars == <<poolChain, chainSeen>>
routVars == <<routines>>
vars == <<subVars, feeVars, scanVars, adVars, snapVars, routVars>>

-----------------------------------------------------------------------------
\* Bounds of the model

\* bits of a u128 in the model (a u256 has twice as many)
HalfBits == 5

\* largest balanceOf(wallet) the scan is run with
MaxBalance == 5

\* operations started on one manager instance
MaxOps == 2

\* fee computations made one after another for one position
MaxComputations == 2

\* changes of the pool's state on chain during one fee query
MaxChainMoves == 2

-----------------------------------------------------------------------------
\* Numeric primitives (utils)

Q128 == 2 ^ HalfBits

MAX_UINT256 == 2 ^ (2 * HalfBits) - 1

\* subIn256 with the "+ 1n" forgotten
subIn256_noCarry(x, y) == IF x >= y THEN x - y ELSE MAX_UINT256 - y + x

\* subIn256 with ">" for ">="
subIn256_strict(x, y) == IF x > y THEN x - y ELSE MAX_UINT256 - y + x + 1

subIn256(x, y) == IF x >= y THEN x - y ELSE MAX_UINT256 - y + x + 1

\* a BigNumberish that BigInt() rejects with a SyntaxError ("abc", 1.5, ...)
NotANumber == 0 - 1

\* bigint.toString(): the canonical decimal digits of n >= 0
RECURSIVE ToString(_)
ToString(n) == IF n < 10 THEN <<n>> ELSE Append(ToString(n \div 10), n % 10)

\* BigInt(s) of a string of decimal digits; BigInt("") is 0n
RECURSIVE BigInt(_)
BigInt(s) ==
  IF s = <<>> THEN 0
  ELSE BigInt(SubSeq(s, 1, Len(s) - 1)) * 10 + s[Len(s)]

\* an optional string field: undefined, or a string
Undefined == [defined |-> FALSE, str |-> <<>>]

Str(s) == [defined |-> TRUE, str |-> s]

\* position.tokensOwed0 ? BigInt(position.tokensOwed0) : 0n
\* (undefined and "" are falsy, every other string is truthy)
OwedOrZero(o) == IF o.defined /\ o.str # <<>> THEN BigInt(o.str) ELSE 0

-----------------------------------------------------------------------------
\* subIn256 on its own

SubInputs ==
  {0, 1, 2, Q128 - 1, Q128, Q128 + 1,
   MAX_UINT256 - 2, MAX_UINT256 - 1, MAX_UINT256, 50, 300, 500}

SubIdle ==
  /\ subPc = "idle" /\ subX = 0 /\ subY = 0 /\ subResult = 0

SubApply ==
  /\ subPc = "call"
  /\ subResult' = subIn256(subX, subY)
  /\ subPc' = "done"
  /\ UNCHANGED <<subX, subY, feeVars, scanVars, adVars, snapVars, routVars>>

-----------------------------------------------------------------------------
\* The fee engine: CLMM.calculateUncollectedFees(position, pool)

\* feeGrowthBelow with ">" for ">="
feeGrowthBelow_gt(tickCurrent, tickLower, feeGrowthGlobal, feeGrowthOutsideLower) ==
  IF tickCurrent > tickLower
  THEN feeGrowthOutsideLower
  ELSE subIn256(feeGrowthGlobal, feeGrowthOutsideLower)

feeGrowthBelow(tickCurrent, tickLower, feeGrowthGlobal, feeGrowthOutsideLower) ==
  IF tickCurrent >= tickLower
  THEN feeGrowthOutsideLower
  ELSE subIn256(feeGrowthGlobal, feeGrowthOutsideLower)

\* feeGrowthAbove with "<=" for "<"
feeGrowthAbove_le(tickCurrent, tickUpper, feeGrowthGlobal, feeGrowthOutsideUpper) ==
  IF tickCurrent <= tickUpper
  THEN feeGrowthOutsideUpper
  ELSE subIn256(feeGrowthGlobal, feeGrowthOutsideUpper)

feeGrowthAbove(tickCurrent, tickUpper, feeGrowthGlobal, feeGrowthOutsideUpper) ==
  IF tickCurrent < tickUpper
  THEN feeGrowthOutsideUpper
  ELSE subIn256(feeGrowthGlobal, feeGrowthOutsideUpper)

\* feeGrowthInside with the growth above the range left in
feeGrowthInside_belowOnly(feeGrowthGlobal, below, above) ==
  subIn256(feeGrowthGlobal, below)

feeGrowthInside(feeGrowthGlobal, below, above) ==
  subIn256(subIn256(feeGrowthGlobal, below), above)

\* feesToken without the division by Q128
feesToken_noDivide(inside, feeGrowthInsideLast, liquidity) ==
  subIn256(inside, feeGrowthInsideLast) * liquidity

\* feesToken dividing before multiplying
feesToken_divFirst(inside, feeGrowthInsideLast, liquidity) ==
  (subIn256(inside, feeGrowthInsideLast) \div Q128) * liquidity

feesToken(inside, feeGrowthInsideLast, liquidity) ==
  (subIn256(inside, feeGrowthInsideLast) * liquidity) \div Q128

\* the zero-liquidity early return with the check dropped: never taken
IsZeroLiquidity_never(liquidity) == FALSE

\* position.liquidity === "0"
IsZeroLiquidity(liquidity) == liquidity = <<0>>

NoTicks == [feeGrowthOutside0X128 |-> 0, feeGrowthOutside1X128 |-> 0]

NoLocals ==
  [feeGrowthBelow0X128 |-> 0, feeGrowthBelow1X128 |-> 0,
   feeGrowthAbove0X128 |-> 0, feeGrowthAbove1X128 |-> 0,
   feeGrowthInside0X128 |-> 0, feeGrowthInside1X128 |-> 0,
   feesToken0 |-> 0, feesToken1 |-> 0]

NoFees == [token0Fees |-> 0, token1Fees |-> 0]

\* the locals with token0's feeGrowthInside computed from token1's global counter
Locals_crossed(pos, pl, lowerFees, upperFees) ==
  LET liquidity == BigInt(pos.liquidity)
      below0 == feeGrowthBelow(pl.tick, pos.tickLower,
                  pl.feeGrowthGlobal0X128, lowerFees.feeGrowthOutside0X128)
      below1 == feeGrowthBelow(pl.tick, pos.tickLower,
                  pl.feeGrowthGlobal1X128, lowerFees.feeGrowthOutside1X128)
      above0 == feeGrowthAbove(pl.tick, pos.tickUpper,
                  pl.feeGrowthGlobal0X128, upperFees.feeGrowthOutside0X128)
      above1 == feeGrowthAbove(pl.tick, pos.tickUpper,
                  pl.feeGrowthGlobal1X128, upperFees.feeGrowthOutside1X128)
      inside0 == feeGrowthInside(pl.feeGrowthGlobal1X128, below0, above0)
      inside1 == feeGrowthInside(pl.feeGrowthGlobal1X128, below1, above1)
  IN  [feeGrowthBelow0X128 |-> below0, feeGrowthBelow1X128 |-> below1,
       feeGrowthAbove0X128 |-> above0, feeGrowthAbove1X128 |-> above1,
       feeGrowthInside0X128 |-> inside0, feeGrowthInside1X128 |-> inside1,
       feesToken0 |-> feesToken(inside0, pos.feeGrowthInside0LastX128, liquidity),
       feesToken1 |-> feesToken(inside1, pos.feeGrowthInside1LastX128, liquidity)]

\* the locals of calculateUncollectedFees after both getTicks calls
Locals(pos, pl, lowerFees, upperFees) ==
  LET liquidity == BigInt(pos.liquidity)
      below0 == feeGrowthBelow(pl.tick, pos.tickLower,
                  pl.feeGrowthGlobal0X128, lowerFees.feeGrowthOutside0X128)
      below1 == feeGrowthBelow(pl.tick, pos.tickLower,
                  pl.feeGrowthGlobal1X128, lowerFees.feeGrowthOutside1X128)
      above0 == feeGrowthAbove(pl.tick, pos.tickUpper,
                  pl.feeGrowthGlobal0X128, upperFees.feeGrowthOutside0X128)
      above1 == feeGrowthAbove(pl.tick, pos.tickUpper,
                  pl.feeGrowthGlobal1X128, upperFees.feeGrowthOutside1X128)
      inside0 == feeGrowthInside(pl.feeGrowthGlobal0X128, below0, above0)
      inside1 == feeGrowthInside(pl.feeGrowthGlobal1X128, below1, above1)
  IN  [feeGrowthBelow0X128 |-> below0, feeGrowthBelow1X128 |-> below1,
       feeGrowthAbove0X128 |-> above0, feeGrowthAbove1X128 |-> above1,
       feeGrowthInside0X128 |-> inside0, feeGrowthInside1X128 |-> inside1,
       feesToken0 |-> feesToken(inside0, pos.feeGrowthInside0LastX128, liquidity),
       feesToken1 |-> feesToken(inside1, pos.feeGrowthInside1LastX128, liquidity)]

\* the returned totals with tokensOwed left out
TotalUncollected_noOwed(pos, locals) ==
  [token0Fees |-> locals.feesToken0, token1Fees |-> locals.feesToken1]

\* totalUncollected0 / totalUncollected1, as returned
TotalUncollected(pos, locals) ==
  [token0Fees |-> locals.feesToken0 + OwedOrZero(pos.tokensOwed0),
   token1Fees |-> locals.feesToken1 + OwedOrZero(pos.tokensOwed1)]

\* the early return for liquidity "0"
OwedOnly(pos) ==
  [token0Fees |-> OwedOrZero(pos.tokensOwed0),
   token1Fees |-> OwedOrZero(pos.tokensOwed1)]

\* what calculateUncollectedFees returns for these arguments and tick answers
UncollectedFees(pos, pl, lowerFees, upperFees) ==
  IF IsZeroLiquidity(pos.liquidity)
  THEN OwedOnly(pos)
  ELSE TotalUncollected(pos, Locals(pos, pl, lowerFees, upperFees))

\* BigInt(...) of the pool's and the position's counters throws
ConversionThrows(pos, pl) ==
  NotANumber \in {pl.feeGrowthGlobal0X128, pl.feeGrowthGlobal1X128,
                  pos.feeGrowthInside0LastX128, pos.feeGrowthInside1LastX128}

\* inputs of one call

Liquidities == {<<0>>, <<1>>, ToString(Q128)}

TickCases ==
  {[tickLower |-> 100, tickUpper |-> 200, tick |-> t] : t \in {99, 100, 150, 200, 201}}
    \cup {[tickLower |-> 200, tickUpper |-> 100, tick |-> 150]}

FeeGrowthGlobals == {500, 20}

FeeGrowthInsideLasts == {300, 350, MAX_UINT256 - 49}

TokensOwed == {Undefined, Str(<<>>), Str(<<7>>)}

FeeGrowthOutsideLowers == {100, MAX_UINT256}

FeeGrowthOutsideUppers == {50, 0}

\* what ticks(tick) of the pool contract may answer
ChainTicks(outsides) ==
  {[feeGrowthOutside0X128 |-> a, feeGrowthOutside1X128 |-> b] :
     a \in outsides, b \in outsides}

MakePosition(liq, tc, last0, last1, owed0, owed1) ==
  [liquidity |-> liq, tickLower |-> tc.tickLower, tickUpper |-> tc.tickUpper,
   feeGrowthInside0LastX128 |-> last0, feeGrowthInside1LastX128 |-> last1,
   tokensOwed0 |-> owed0, tokensOwed1 |-> owed1]

MakePool(tc, global0, global1) ==
  [address |-> "pool", tick |-> tc.tick,
   feeGrowthGlobal0X128 |-> global0, feeGrowthGlobal1X128 |-> global1]

\* well-formed arguments
FeeArgsValid ==
  \E liq \in Liquidities, tc \in TickCases,
     global0 \in FeeGrowthGlobals, global1 \in FeeGrowthGlobals,
     last0 \in FeeGrowthInsideLasts, last1 \in FeeGrowthInsideLasts,
     owed0 \in TokensOwed, owed1 \in TokensOwed :
    /\ position = MakePosition(liq, tc, last0, last1, owed0, owed1)
    /\ pool = MakePool(tc, global0, global1)

\* arguments with at least one counter that is not a number
FeeArgsMalformed ==
  \E liq \in Liquidities,
     global0 \in {500, NotANumber}, global1 \in {500, NotANumber},
     last0 \in {300, NotANumber}, last1 \in {300, NotANumber},
     owed0 \in TokensOwed, owed1 \in TokensOwed :
    /\ NotANumber \in {global0, global1, last0, last1}
    /\ position = MakePosition(liq, [tickLower |-> 100, tickUpper |-> 200, tick |-> 150],
                               last0, last1, owed0, owed1)
    /\ pool = MakePool([tickLower |-> 100, tickUpper |-> 200, tick |-> 150],
                       global0, global1)

FeeIdle ==
  /\ feePc = "idle"
  /\ tickLowerFees = NoTicks /\ tickUpperFees = NoTicks
  /\ calc = NoLocals /\ fees = NoFees /\ ticksCalls = <<>> /\ history = <<>>

\* entry of calculateUncollectedFees up to the first await
FeeCall ==
  /\ feePc = "call"
  /\ IF IsZeroLiquidity(position.liquidity)
     THEN /\ fees' = UncollectedFees(position, pool, tickLowerFees, tickUpperFees)
          /\ feePc' = "done"
     ELSE /\ fees' = fees
          /\ feePc' = IF ConversionThrows(position, pool) THEN "thrown" ELSE "lower"
  /\ UNCHANGED <<position, pool, tickLowerFees, tickUpperFees, calc, ticksCalls, history,
                 subVars, scanVars, adVars, snapVars, routVars>>

\* the lower tick kept from the previous computation instead of fetched
FeeGetTicksLower_cached ==
  /\ feePc = "lower"
  /\ IF history # <<>>
     THEN /\ tickLowerFees' = history[Len(history)].tickLower
          /\ ticksCalls' = ticksCalls
     ELSE /\ \E t \in ChainTicks(FeeGrowthOutsideLowers) : tickLowerFees' = t
          /\ ticksCalls' = Append(ticksCalls, <<pool.address, position.tickLower>>)
  /\ feePc' = "upper"
  /\ UNCHANGED <<position, pool, tickUpperFees, calc, fees, history,
                 subVars, scanVars, adVars, snapVars, routVars>>

\* await this.getTicks(pool.address, tickLower)
FeeGetTicksLower ==
  /\ feePc = "lower"
  /\ \E t \in ChainTicks(FeeGrowthOutsideLowers) : tickLowerFees' = t
  /\ ticksCalls' = Append(ticksCalls, <<pool.address, position.tickLower>>)
  /\ feePc' = "upper"
  /\ UNCHANGED <<position, pool, tickUpperFees, calc, fees, history,
                 subVars, scanVars, adVars, snapVars, routVars>>

\* the second fetch asking for tickLower again
FeeGetTicksUpper_lowerAgain ==
  /\ feePc = "upper"
  /\ \E t \in ChainTicks(FeeGrowthOutsideLowers) :
       /\ tickUpperFees' = t
       /\ calc' = Locals(position, pool, tickLowerFees, t)
  /\ fees' = UncollectedFees(position, pool, tickLowerFees, tickUpperFees')
  /\ ticksCalls' = Append(ticksCalls, <<pool.address, position.tickLower>>)
  /\ feePc' = "done"
  /\ UNCHANGED <<position, pool, tickLowerFees, history, subVars, scanVars, adVars, snapVars, routVars>>

\* await this.getTicks(pool.address, tickUpper), then the arithmetic and the return
FeeGetTicksUpper ==
  /\ feePc = "upper"
  /\ \E t \in ChainTicks(FeeGrowthOutsideUppers) :
       /\ tickUpperFees' = t
       /\ calc' = Locals(position, pool, tickLowerFees, t)
  /\ fees' = UncollectedFees(position, pool, tickLowerFees, tickUpperFees')
  /\ ticksCalls' = Append(ticksCalls, <<pool.address, position.tickUpper>>)
  /\ feePc' = "done"
  /\ UNCHANGED <<position, pool, tickLowerFees, history, subVars, scanVars, adVars, snapVars, routVars>>

\* a getTicks call rejects: the rejection leaves calculateUncollectedFees
FeeGetTicksFails ==
  /\ feePc \in {"lower", "upper"}
  /\ ticksCalls' = Append(ticksCalls,
       <<pool.address, IF feePc = "lower" THEN position.tickLower ELSE position.tickUpper>>)
  /\ feePc' = "thrown"
  /\ UNCHANGED <<position, pool, tickLowerFees, tickUpperFees, calc, fees, history,
                 subVars, scanVars, adVars, snapVars, routVars>>

\* calculateUncollectedFees is called again for the same position and pool (the
\* loop of main, a later run): its locals start afresh; history keeps what the
\* finished computation read and returned
FeeRecompute ==
  /\ feePc = "done"
  /\ Len(history) < MaxComputations - 1
  /\ history' = Append(history, [tickLower |-> tickLowerFees, tickUpper |-> tickUpperFees,
                                 calls |-> ticksCalls, fees |-> fees])
  /\ feePc' = "call"
  /\ tickLowerFees' = NoTicks /\ tickUpperFees' = NoTicks
  /\ calc' = NoLocals /\ fees' = NoFees /\ ticksCalls' = <<>>
  /\ UNCHANGED <<position, pool, subVars, scanVars, adVars, snapVars, routVars>>

-----------------------------------------------------------------------------
\* The wallet scan: CLMM.getPositionsForWallet(walletAddress)

\* tokenOfOwnerByIndex(wallet, index) of the position manager
OwnedTokenId(index) == 8 + index

\* positions(tokenId).liquidity values the chain may hold
ChainLiquidities == {0, 1, Q128 - 1}

\* inRange with the upper bound excluded
InRange_halfOpen(currentTick, tickLower, tickUpper) ==
  currentTick >= tickLower /\ currentTick < tickUpper

\* inRange as getPosition computes it
InRange(currentTick, tickLower, tickUpper) ==
  currentTick >= tickLower /\ currentTick <= tickUpper

\* the PositionInfo getPosition returns for positionData and slot0.tick
PositionInfoOf(positionId, positionData, currentTick) ==
  [id |-> positionId,
   tickLower |-> positionData.tickLower,
   tickUpper |-> positionData.tickUpper,
   currentTick |-> currentTick,
   liquidity |-> ToString(positionData.liquidity),
   feeGrowthInside0LastX128 |-> positionData.feeGrowthInside0LastX128,
   feeGrowthInside1LastX128 |-> positionData.feeGrowthInside1LastX128,
   tokensOwed0 |-> Str(ToString(positionData.tokensOwed0)),
   tokensOwed1 |-> Str(ToString(positionData.tokensOwed1)),
   inRange |-> InRange(currentTick, positionData.tickLower, positionData.tickUpper)]

\* positions(tokenId) of the position manager, for a given liquidity
ChainPositionData(liq) ==
  [tickLower |-> 100, tickUpper |-> 200, liquidity |-> liq,
   feeGrowthInside0LastX128 |-> 300, feeGrowthInside1LastX128 |-> 300,
   tokensOwed0 |-> 7, tokensOwed1 |-> 0]

NoPosition == PositionInfoOf(<<>>, ChainPositionData(0), 0)

\* the filter with the comparison dropped: every position is kept
KeepPosition_all(pos) == TRUE

\* position.liquidity !== "0"
KeepPosition(pos) == pos.liquidity # <<0>>

ScanIdle ==
  /\ scanPc = "idle" /\ balance = 0 /\ i = 0 /\ tokenId = 0
  /\ positions = <<>> /\ attempts = <<>> /\ failedCall = "" /\ scanCalls = <<>>

\* the loop test letting the index reach the count
AfterIndex_inclusive == IF i + 1 <= balance THEN "tokenOfOwnerByIndex" ELSE "returned"

\* where the loop goes after the body for index i
AfterIndex == IF i + 1 < balance THEN "tokenOfOwnerByIndex" ELSE "returned"

\* await this.positionManager.balanceOf(walletAddress)
ScanBalanceOf ==
  /\ scanPc = "balanceOf"
  /\ \E b \in 0 .. MaxBalance :
       /\ balance' = b
       /\ scanPc' = IF 0 < b THEN "tokenOfOwnerByIndex" ELSE "returned"
  /\ i' = 0
  /\ positions' = <<>>
  /\ scanCalls' = Append(scanCalls, <<"balanceOf", 0>>)
  /\ UNCHANGED <<tokenId, attempts, failedCall, subVars, feeVars, adVars, snapVars, routVars>>

\* balanceOf rejects: the rejection leaves getPositionsForWallet
ScanBalanceOfFails ==
  /\ scanPc = "balanceOf"
  /\ scanPc' = "thrown"
  /\ failedCall' = "balanceOf"
  /\ scanCalls' = Append(scanCalls, <<"balanceOf", 0>>)
  /\ UNCHANGED <<balance, i, tokenId, positions, attempts, subVars, feeVars, adVars, snapVars, routVars>>

\* await this.positionManager.tokenOfOwnerByIndex(walletAddress, i)
ScanTokenOfOwnerByIndex ==
  /\ scanPc = "tokenOfOwnerByIndex"
  /\ tokenId' = OwnedTokenId(i)
  /\ scanPc' = "getPosition"
  /\ scanCalls' = Append(scanCalls, <<"tokenOfOwnerByIndex", i>>)
  /\ UNCHANGED <<balance, i, positions, attempts, failedCall, subVars, feeVars, adVars, snapVars, routVars>>

\* tokenOfOwnerByIndex rejects outside the try block
ScanTokenOfOwnerByIndexFails ==
  /\ scanPc = "tokenOfOwnerByIndex"
  /\ scanPc' = "thrown"
  /\ failedCall' = "tokenOfOwnerByIndex"
  /\ scanCalls' = Append(scanCalls, <<"tokenOfOwnerByIndex", i>>)
  /\ UNCHANGED <<balance, i, tokenId, positions, attempts, subVars, feeVars, adVars, snapVars, routVars>>

\* getPosition rejecting with the rejection left uncaught
ScanGetPositionFails_abort ==
  /\ scanPc = "getPosition"
  /\ scanPc' = "thrown"
  /\ failedCall' = "getPosition"
  /\ attempts' = Append(attempts, [index |-> i, ok |-> FALSE, position |-> NoPosition])
  /\ scanCalls' = Append(scanCalls, <<"getPosition", tokenId>>)
  /\ UNCHANGED <<balance, i, tokenId, positions, subVars, feeVars, adVars, snapVars, routVars>>

\* try { position = await this.getPosition(tokenId.toString()); push if kept }
ScanGetPosition ==
  /\ scanPc = "getPosition"
  /\ \E liq \in ChainLiquidities, currentTick \in {150} :
       LET pos == PositionInfoOf(ToString(tokenId), ChainPositionData(liq), currentTick)
       IN  /\ positions' = IF KeepPosition(pos) THEN Append(positions, pos) ELSE positions
           /\ attempts' = Append(attempts, [index |-> i, ok |-> TRUE, position |-> pos])
  /\ i' = i + 1
  /\ scanPc' = AfterIndex
  /\ scanCalls' = Append(scanCalls, <<"getPosition", tokenId>>)
  /\ UNCHANGED <<balance, tokenId, failedCall, subVars, feeVars, adVars, snapVars, routVars>>

\* getPosition rejects: catch (error) { console.warn(...) }, then the next index
ScanGetPositionFails ==
  /\ scanPc = "getPosition"
  /\ attempts' = Append(attempts, [index |-> i, ok |-> FALSE, position |-> NoPosition])
  /\ i' = i + 1
  /\ scanPc' = AfterIndex
  /\ scanCalls' = Append(scanCalls, <<"getPosition", tokenId>>)
  /\ UNCHANGED <<balance, tokenId, positions, failedCall, subVars, feeVars, adVars, snapVars, routVars>>

-----------------------------------------------------------------------------
\* The managers: HyperSwapManager (pools keyed by fee) and KittenswapManager
\* (pools keyed by tick spacing)

Procs == 1 .. MaxOps

ZeroAddress == "0x0000000000000000000000000000000000000000"

\* TICK_SPACINGS of hyperswap.ts, keyed by FeeTier
TICK_SPACINGS ==
  [fee \in {100, 500, 3000, 10000} |->
     CASE fee = 100 -> 1 [] fee = 500 -> 10 [] fee = 3000 -> 60 [] OTHER -> 200]

\* TICK_SPACINGS of KittenswapManager, keyed by FeeTier
TICK_SPACINGS_Kitten ==
  [fee \in {200, 2500, 7500} |->
     CASE fee = 200 -> 1 [] fee = 2500 -> 200 [] OTHER -> 2000]

TableOf(k) == IF k = "hyperswap" THEN TICK_SPACINGS ELSE TICK_SPACINGS_Kitten

NoPool ==
  [address |-> "", fee |-> 0, tick |-> 0, liquidity |-> <<>>,
   feeGrowthGlobal0X128 |-> 0, feeGrowthGlobal1X128 |-> 0]

NoResult == [number |-> 0, position |-> NoPosition, fee |-> 0, pool |-> NoPool]

Returned(o, res) == [o EXCEPT !.pc = "returned", !.result = res]

Thrown(o, message) == [o EXCEPT !.pc = "thrown", !.error = message]

\* getTickSpacingForFee with the table's values looked up by position, not by key
TickSpacingForFee_offByOne(o, table) ==
  IF o.arg \in DOMAIN table
  THEN Returned(o, [NoResult EXCEPT !.number = table[o.arg] + 1])
  ELSE Thrown(o, "Unknown fee amount")

\* getTickSpacingForFee resolving the factory before the lookup
TickSpacingForFee_viaFactory(o, table) ==
  [o EXCEPT !.calls = <<[to |-> "positionManager", method |-> "factory"]>>,
            !.pc = "factory"]

\* getTickSpacingForFee(fee): feeAmount in TICK_SPACINGS ? TICK_SPACINGS[feeAmount] : throw
TickSpacingForFee(o, table) ==
  IF o.arg \in DOMAIN table
  THEN Returned(o, [NoResult EXCEPT !.number = table[o.arg]])
  ELSE Thrown(o, "Unknown fee amount")

\* HyperSwapManager.getFeeForTickSpacing(tickSpacing): for (const fee in
\* TICK_SPACINGS), in ascending key order, the first fee whose spacing matches
FeeForTickSpacing(o, table) ==
  LET hits == {fee \in DOMAIN table : table[fee] = o.arg}
  IN  IF hits # {}
      THEN Returned(o, [NoResult EXCEPT
                          !.number = CHOOSE fee \in hits : \A g \in hits : fee <= g])
      ELSE Thrown(o, "Unknown tick spacing")

\* a call as the collaborator sees it
Call(to, method) == [to |-> to, method |-> method]

Issue(o, newCalls, nextPc) == [o EXCEPT !.calls = o.calls \o newCalls, !.pc = nextPc]

\* getTokenInfo(token0) and getTokenInfo(token1) under one Promise.all
TokenCalls(token0, token1) ==
  <<Call(token0, "symbol"), Call(token0, "decimals"),
    Call(token1, "symbol"), Call(token1, "decimals")>>

\* the pool reads of getPoolData under one Promise.all
PoolStateCalls(k, poolAddress) ==
  <<Call(poolAddress, "slot0"), Call(poolAddress, "liquidity"),
    Call(poolAddress, "feeGrowthGlobal0X128"), Call(poolAddress, "feeGrowthGlobal1X128"),
    Call(poolAddress, "token0"), Call(poolAddress, "token1"), Call(poolAddress, "fee")>>
  \o (IF k = "kittenswap" THEN <<Call(poolAddress, "tickSpacing")>> ELSE <<>>)

\* initializeFactory with the test dropped: factory() is asked every time
NeedsFactory_always(address) == TRUE

\* if (!this.factoryAddress)
NeedsFactory(address) == address = ""

\* the step after "await this.initializeFactory()" returned: the operation's
\* next call, on the factory contract fc (a TypeError when it is unassigned)
AfterInitializeFactory(o, fc) ==
  IF o.op = "getPosition" /\ ~o.inner
  THEN Issue(o, <<Call("positionManager", "positions")>>, "positions")
  ELSE IF fc = ""
  THEN Thrown(o, "TypeError")
  ELSE IF o.op = "getPoolData"
  THEN Issue(o, <<Call(fc, "getPool")>>, "getPool")
  ELSE Issue(o, <<Call(fc, "tickSpacingToFee")>>, "fee")

\* await this.initializeFactory(), up to its first await
InitializeFactory(o, address, fc) ==
  IF NeedsFactory(address)
  THEN Issue(o, <<Call("positionManager", "factory")>>, "factory")
  ELSE AfterInitializeFactory(o, fc)

\* the operations of a manager and their arguments
OpsOf(k) ==
  {"getPosition", "getPoolData", "getTickSpacingForFee", "getFeeForTickSpacing"}

FeeKeys == {0, 1, 60, 100, 200, 500, 2500, 3000, 7500, 10000, 10001}

TickSpacingKeys == {0, 1, 2, 10, 60, 100, 200, 2000}

\* every key is tried on a single operation; runs of several operations use
\* one known and one unknown key
ArgsOf(op) ==
  CASE op = "getTickSpacingForFee" -> IF schedule = "single" THEN FeeKeys ELSE {2500, 0}
    [] op = "getFeeForTickSpacing" -> IF schedule = "single" THEN TickSpacingKeys ELSE {200, 0}
    [] OTHER -> {8}

IdleOp ==
  [op |-> "", arg |-> 0, pc |-> "idle", inner |-> FALSE, calls |-> <<>>,
   failed |-> <<>>, error |-> "", positionData |-> ChainPositionData(0),
   poolAddress |-> "", currentTick |-> 0, poolTick |-> 0, result |-> NoResult]

Finished(o) == o.pc \in {"idle", "returned", "thrown"}

\* positions(tokenId) of the position manager
AdPositionData(tc, liq) ==
  [tickLower |-> tc.tickLower, tickUpper |-> tc.tickUpper, liquidity |-> liq,
   feeGrowthInside0LastX128 |-> 300, feeGrowthInside1LastX128 |-> 300,
   tokensOwed0 |-> 7, tokensOwed1 |-> 0]

\* fees tickSpacingToFee(spacing) of the Kittenswap factory may answer
FeeAnswers == {200, 2500}

\* the chain states the single-operation runs start from
Chains ==
  {[factory |-> "0xFactory", positionData |-> AdPositionData(tc, liq),
    poolAddress |-> pa, tick |-> tc.tick, tickSpacingToFee |-> 200] :
     tc \in TickCases, liq \in ChainLiquidities, pa \in {ZeroAddress, "0xPool"}}

\* the chain states the runs of several operations start from
SmallChains ==
  {c \in Chains : /\ c.positionData.tickLower = 100 /\ c.tick = 150
                  /\ c.positionData.liquidity = 1}

AdIdle ==
  /\ kind = "" /\ schedule = "" /\ factoryAddress = "" /\ factoryContract = ""
  /\ chain = CHOOSE c \in SmallChains : c.poolAddress = "0xPool"
  /\ ops = [p \in Procs |-> IdleOp]

\* which operation may start next under the run's schedule
MayStart(p) ==
  CASE schedule = "single" -> p = 1
    [] schedule = "sequential" ->
         /\ \A q \in Procs : Finished(ops[q])
         /\ \A q \in Procs : q < p => ops[q].pc # "idle"
    [] OTHER -> TRUE

\* an operation is called: the code up to its first await
OpStart(p) ==
  /\ ops[p].pc = "idle"
  /\ MayStart(p)
  /\ \E op \in OpsOf(kind) : \E arg \in ArgsOf(op) :
       LET o == [ops[p] EXCEPT !.op = op, !.arg = arg]
       IN  ops' = [ops EXCEPT ![p] =
             IF op = "getTickSpacingForFee"
             THEN TickSpacingForFee(o, TableOf(kind))
             ELSE IF op = "getFeeForTickSpacing" /\ kind = "hyperswap"
             THEN FeeForTickSpacing(o, TableOf(kind))
             ELSE InitializeFactory(o, factoryAddress, factoryContract)]
  /\ UNCHANGED <<kind, schedule, chain, factoryAddress, factoryContract,
                 subVars, feeVars, scanVars, snapVars, routVars>>

\* factory() resolving with the contract left to be built later
FactoryResolves_addressOnly(p) ==
  /\ ops[p].pc = "factory"
  /\ factoryAddress' = chain.factory
  /\ factoryContract' = factoryContract
  /\ ops' = [ops EXCEPT ![p] = AfterInitializeFactory(ops[p], factoryContract')]
  /\ UNCHANGED <<kind, schedule, chain, subVars, feeVars, scanVars, snapVars, routVars>>

\* factory() resolves: the address and the contract are assigned
FactoryResolves(p) ==
  /\ ops[p].pc = "factory"
  /\ factoryAddress' = chain.factory
  /\ factoryContract' = factoryAddress'
  /\ ops' = [ops EXCEPT ![p] = AfterInitializeFactory(ops[p], factoryContract')]
  /\ UNCHANGED <<kind, schedule, chain, subVars, feeVars, scanVars, snapVars, routVars>>

\* positions(positionId) resolves; getPool is asked of the factory contract
PositionsResolves(p) ==
  /\ ops[p].pc = "positions"
  /\ ops' = [ops EXCEPT ![p] =
       LET o == [ops[p] EXCEPT !.positionData = chain.positionData]
       IN  IF factoryContract = ""
           THEN Thrown(o, "TypeError")
           ELSE Issue(o, <<Call(factoryContract, "getPool")>>, "getPool")]
  /\ UNCHANGED <<kind, schedule, chain, factoryAddress, factoryContract,
                 subVars, feeVars, scanVars, snapVars, routVars>>

\* getPoolData throwing "Pool does not exist" left out
PoolMissing_never(op, poolAddress) == FALSE

\* getPoolData: if (poolAddress === ethers.ZeroAddress) throw; getPosition
\* has no such test
PoolMissing(op, poolAddress) == op = "getPoolData" /\ poolAddress = ZeroAddress

\* getPool resolves
GetPoolResolves(p) ==
  /\ ops[p].pc = "getPool"
  /\ ops' = [ops EXCEPT ![p] =
       LET o == [ops[p] EXCEPT !.poolAddress = chain.poolAddress]
       IN  IF PoolMissing(o.op, o.poolAddress)
           THEN Thrown(o, "Pool does not exist")
           ELSE IF o.op = "getPoolData"
           THEN Issue(o, PoolStateCalls(kind, o.poolAddress), "poolState")
           ELSE Issue(o, <<Call(o.poolAddress, "slot0")>>, "slot0")]
  /\ UNCHANGED <<kind, schedule, chain, factoryAddress, factoryContract,
                 subVars, feeVars, scanVars, snapVars, routVars>>

\* slot0() of getPosition resolves (there is no contract at the zero address:
\* a call to it can only reject)
Slot0Resolves(p) ==
  /\ ops[p].pc = "slot0"
  /\ ops[p].poolAddress # ZeroAddress
  /\ ops' = [ops EXCEPT ![p] =
       Issue([ops[p] EXCEPT !.currentTick = chain.tick],
             TokenCalls("0xToken0", "0xToken1"), "tokens")]
  /\ UNCHANGED <<kind, schedule, chain, factoryAddress, factoryContract,
                 subVars, feeVars, scanVars, snapVars, routVars>>

\* the pool reads of getPoolData resolve
PoolStateResolves(p) ==
  /\ ops[p].pc = "poolState"
  /\ ops[p].poolAddress # ZeroAddress
  /\ ops' = [ops EXCEPT ![p] =
       Issue([ops[p] EXCEPT !.poolTick = chain.tick],
             TokenCalls("0xToken0", "0xToken1"), "tokens")]
  /\ UNCHANGED <<kind, schedule, chain, factoryAddress, factoryContract,
                 subVars, feeVars, scanVars, snapVars, routVars>>

\* the PoolData getPoolData returns
PoolDataOf(poolAddress, tick) ==
  [address |-> poolAddress, fee |-> 3000, tick |-> tick, liquidity |-> ToString(1),
   feeGrowthGlobal0X128 |-> 500, feeGrowthGlobal1X128 |-> 20]

\* the token reads resolve: getPoolData and HyperSwapManager.getPosition
\* return; KittenswapManager.getPosition goes on to getFeeForTickSpacing
TokensResolve(p) ==
  /\ ops[p].pc = "tokens"
  /\ ops' = [ops EXCEPT ![p] =
       LET o == ops[p]
           info == PositionInfoOf(ToString(o.arg), o.positionData, o.currentTick)
       IN  IF o.op = "getPoolData"
           THEN Returned(o, [NoResult EXCEPT !.pool = PoolDataOf(o.poolAddress, o.poolTick)])
           ELSE IF kind = "hyperswap"
           THEN Returned(o, [NoResult EXCEPT !.position = info, !.fee = 3000])
           ELSE InitializeFactory([o EXCEPT !.inner = TRUE],
                                  factoryAddress, factoryContract)]
  /\ UNCHANGED <<kind, schedule, chain, factoryAddress, factoryContract,
                 subVars, feeVars, scanVars, snapVars, routVars>>

\* a fee remembered from the previous answer instead of the one just given
FeeAnswer_remembered(o, answer) ==
  LET earlier == {q \in Procs : /\ ops[q].op = "getFeeForTickSpacing"
                                /\ ops[q].pc = "returned"}
  IN  IF earlier # {} THEN ops[CHOOSE q \in earlier : TRUE].result.number ELSE answer

\* Number(fee) of the answer of tickSpacingToFee
FeeAnswer(o, answer) == answer

\* tickSpacingToFee resolves: KittenswapManager.getFeeForTickSpacing returns,
\* on its own or as the last step of getPosition
FeeResolves(p) ==
  /\ ops[p].pc = "fee"
  /\ ops' = [ops EXCEPT ![p] =
       LET o == ops[p]
           fee == FeeAnswer(o, chain.tickSpacingToFee)
       IN  IF o.op = "getFeeForTickSpacing"
           THEN Returned(o, [NoResult EXCEPT !.number = fee])
           ELSE Returned(o, [NoResult EXCEPT
                  !.position = PositionInfoOf(ToString(o.arg), o.positionData, o.currentTick),
                  !.fee = fee])]
  /\ UNCHANGED <<kind, schedule, chain, factoryAddress, factoryContract,
                 subVars, feeVars, scanVars, snapVars, routVars>>

\* the calls an operation is waiting for
Pending(o) ==
  CASE o.pc = "tokens" -> SubSeq(o.calls, Len(o.calls) - 3, Len(o.calls))
    [] o.pc = "poolState" ->
         SubSeq(o.calls, Len(o.calls) - Len(PoolStateCalls(kind, o.poolAddress)) + 1,
                Len(o.calls))
    [] OTHER -> <<o.calls[Len(o.calls)]>>

\* a rejected call issued once more instead of failing the operation
CallFails_retry(p) ==
  /\ ops[p].pc \in {"factory", "positions", "getPool", "slot0", "poolState", "tokens", "fee"}
  /\ \E k \in 1 .. Len(Pending(ops[p])) :
       ops' = [ops EXCEPT ![p] =
                 [Issue(ops[p], <<Pending(ops[p])[k]>>, ops[p].pc)
                    EXCEPT !.failed = <<Pending(ops[p])[k]>>]]
  /\ UNCHANGED <<kind, schedule, chain, factoryAddress, factoryContract,
                 subVars, feeVars, scanVars, snapVars, routVars>>

\* a rejected factory() call remembered as if it had answered
CallFails_memoised(p) ==
  /\ ops[p].pc \in {"factory", "positions", "getPool", "slot0", "poolState", "tokens", "fee"}
  /\ \E k \in 1 .. Len(Pending(ops[p])) :
       ops' = [ops EXCEPT ![p] =
                 [Thrown(ops[p], "call rejected") EXCEPT !.failed = <<Pending(ops[p])[k]>>]]
  /\ factoryAddress' = IF ops[p].pc = "factory" THEN "0xUnresolved" ELSE factoryAddress
  /\ UNCHANGED <<kind, schedule, chain, factoryContract, subVars, feeVars, scanVars, snapVars, routVars>>

\* a call the operation awaits rejects: nothing catches it, the operation rejects
CallFails(p) ==
  /\ ops[p].pc \in {"factory", "positions", "getPool", "slot0", "poolState", "tokens", "fee"}
  /\ \E k \in 1 .. Len(Pending(ops[p])) :
       ops' = [ops EXCEPT ![p] =
                 [Thrown(ops[p], "call rejected") EXCEPT !.failed = <<Pending(ops[p])[k]>>]]
  /\ UNCHANGED <<kind, schedule, chain, factoryAddress, factoryContract,
                 subVars, feeVars, scanVars, snapVars, routVars>>

\* the protocol changes the fee of the tick spacing
ChainChanges ==
  /\ kind # ""
  /\ \E fee \in FeeAnswers \ {chain.tickSpacingToFee} :
       chain' = [chain EXCEPT !.tickSpacingToFee = fee]
  /\ UNCHANGED <<kind, schedule, factoryAddress, factoryContract, ops,
                 subVars, feeVars, scanVars, snapVars, routVars>>

-----------------------------------------------------------------------------
\* The fee routines side by side

Routines == {"clmm", "hyperswap", "useV3", "draft"}

\* a routine that has not run; bigint results are token0 / token1, the decimal
\* strings of useV3PositionFees are amount0 / amount1
NotRun == [state |-> "pending", token0 |-> 0, token1 |-> 0,
           amount0 |-> <<>>, amount1 |-> <<>>]

RoutIdle == routines = [r \in Routines |-> NotRun]

RoutineThrew == [NotRun EXCEPT !.state = "thrown"]

RoutineReturned(f) ==
  [NotRun EXCEPT !.state = "returned", !.token0 = f.token0Fees, !.token1 = f.token1Fees]

\* bigint division: the quotient is truncated toward zero
BigIntDiv(a, b) == IF a >= 0 THEN a \div b ELSE 0 - ((0 - a) \div b)

\* getCounterfactualFees with "<=" for "<" in the test of the upper tick
getCounterfactualFees_le(feeGrowthGlobal, feeGrowthOutsideLower, feeGrowthOutsideUpper, feeGrowthInsideLast, pl, liquidity, tickLower, tickUpper) ==
  LET below == IF pl.tick >= tickLower
               THEN feeGrowthOutsideLower
               ELSE subIn256(feeGrowthGlobal, feeGrowthOutsideLower)
      above == IF pl.tick <= tickUpper
               THEN feeGrowthOutsideUpper
               ELSE subIn256(feeGrowthGlobal, feeGrowthOutsideUpper)
      inside == subIn256(subIn256(feeGrowthGlobal, below), above)
  IN  BigIntDiv(subIn256(inside, feeGrowthInsideLast) * liquidity, Q128)

\* HyperSwapManager.getCounterfactualFees
getCounterfactualFees(feeGrowthGlobal, feeGrowthOutsideLower, feeGrowthOutsideUpper, feeGrowthInsideLast, pl, liquidity, tickLower, tickUpper) ==
  LET below == IF pl.tick >= tickLower
               THEN feeGrowthOutsideLower
               ELSE subIn256(feeGrowthGlobal, feeGrowthOutsideLower)
      above == IF pl.tick < tickUpper
               THEN feeGrowthOutsideUpper
               ELSE subIn256(feeGrowthGlobal, feeGrowthOutsideUpper)
      inside == subIn256(subIn256(feeGrowthGlobal, below), above)
  IN  BigIntDiv(subIn256(inside, feeGrowthInsideLast) * liquidity, Q128)

\* HyperSwapManager.useV3PositionFees(pool, positionDetails) with the answers of
\* its two getTicks calls: BigInt(undefined) and BigInt of a non-number throw
useV3PositionFees(pl, positionDetails, lowerFees, upperFees) ==
  IF \/ ConversionThrows(positionDetails, pl)
     \/ ~positionDetails.tokensOwed0.defined
     \/ ~positionDetails.tokensOwed1.defined
  THEN RoutineThrew
  ELSE
    LET counterfactualFees0 ==
          getCounterfactualFees(
            pl.feeGrowthGlobal0X128, lowerFees.feeGrowthOutside0X128,
            upperFees.feeGrowthOutside0X128, positionDetails.feeGrowthInside0LastX128,
            pl, BigInt(positionDetails.liquidity),
            positionDetails.tickLower, positionDetails.tickUpper)
        counterfactualFees1 ==
          getCounterfactualFees(
            pl.feeGrowthGlobal1X128, lowerFees.feeGrowthOutside1X128,
            upperFees.feeGrowthOutside1X128, positionDetails.feeGrowthInside1LastX128,
            pl, BigInt(positionDetails.liquidity),
            positionDetails.tickLower, positionDetails.tickUpper)
    IN  [NotRun EXCEPT
           !.state = "returned",
           !.amount0 = ToString(BigInt(positionDetails.tokensOwed0.str) + counterfactualFees0),
           !.amount1 = ToString(BigInt(positionDetails.tokensOwed1.str) + counterfactualFees1)]

\* HyperSwapManager.calculateUncollectedFees(position, pool) with the answers
\* of its two getTicks calls
HyperSwapUncollectedFees(pos, pl, tickLowerFees_, tickHigherFees) ==
  IF pos.liquidity = <<0>>
  THEN RoutineReturned([token0Fees |-> OwedOrZero(pos.tokensOwed0),
                        token1Fees |-> OwedOrZero(pos.tokensOwed1)])
  ELSE IF ConversionThrows(pos, pl)
  THEN RoutineThrew
  ELSE
    LET liquidity == BigInt(pos.liquidity)
        global0 == pl.feeGrowthGlobal0X128
        global1 == pl.feeGrowthGlobal1X128
        below0 == IF pl.tick >= pos.tickLower
                  THEN tickLowerFees_.feeGrowthOutside0X128
                  ELSE subIn256(global0, tickLowerFees_.feeGrowthOutside0X128)
        below1 == IF pl.tick >= pos.tickLower
                  THEN tickLowerFees_.feeGrowthOutside1X128
                  ELSE subIn256(global1, tickLowerFees_.feeGrowthOutside1X128)
        above0 == IF pl.tick < pos.tickUpper
                  THEN tickHigherFees.feeGrowthOutside0X128
                  ELSE subIn256(global0, tickHigherFees.feeGrowthOutside0X128)
        above1 == IF pl.tick < pos.tickUpper
                  THEN tickHigherFees.feeGrowthOutside1X128
                  ELSE subIn256(global1, tickHigherFees.feeGrowthOutside1X128)
        inside0 == subIn256(subIn256(global0, below0), above0)
        inside1 == subIn256(subIn256(global1, below1), above1)
        feesToken0 == BigIntDiv(subIn256(inside0, pos.feeGrowthInside0LastX128) * liquidity, Q128)
        feesToken1 == BigIntDiv(subIn256(inside1, pos.feeGrowthInside1LastX128) * liquidity, Q128)
    IN  RoutineReturned([token0Fees |-> feesToken0 + OwedOrZero(pos.tokensOwed0),
                         token1Fees |-> feesToken1 + OwedOrZero(pos.tokensOwed1)])

\* CLMM.calculateUncollectedFees(position, pool) with the answers of its two
\* getTicks calls
ClmmUncollectedFees(pos, pl, lowerFees, upperFees) ==
  IF ~IsZeroLiquidity(pos.liquidity) /\ ConversionThrows(pos, pl)
  THEN RoutineThrew
  ELSE RoutineReturned(UncollectedFees(pos, pl, lowerFees, upperFees))

\* the arguments of the draft in the shape its parameters declare
DraftPosition(pos) ==
  [liquidity |-> pos.liquidity,
   feeGrowthInside0x128 |-> pos.feeGrowthInside0LastX128,
   feeGrowthInside1x128 |-> pos.feeGrowthInside1LastX128,
   tokensOwed0 |-> pos.tokensOwed0, tokensOwed1 |-> pos.tokensOwed1]

DraftPoolData(pl) ==
  [feeGrowthGlobal0x128 |-> pl.feeGrowthGlobal0X128,
   feeGrowthGlobal1x128 |-> pl.feeGrowthGlobal1X128]

\* calculateUncollectedFees(position, poolData) of the utils draft
calculateUncollectedFees(dpos, poolData) ==
  IF NotANumber \in {poolData.feeGrowthGlobal0x128, poolData.feeGrowthGlobal1x128,
                     dpos.feeGrowthInside0x128, dpos.feeGrowthInside1x128}
  THEN RoutineThrew
  ELSE
    LET liquidityBI == BigInt(dpos.liquidity)
        feeGrowthDelta0 == poolData.feeGrowthGlobal0x128 - dpos.feeGrowthInside0x128
        feeGrowthDelta1 == poolData.feeGrowthGlobal1x128 - dpos.feeGrowthInside1x128
        uncollectedFees0 == BigIntDiv(liquidityBI * feeGrowthDelta0, Q128)
        uncollectedFees1 == BigIntDiv(liquidityBI * feeGrowthDelta1, Q128)
    IN  RoutineReturned([token0Fees |-> uncollectedFees0 + OwedOrZero(dpos.tokensOwed0),
                         token1Fees |-> uncollectedFees1 + OwedOrZero(dpos.tokensOwed1)])

\* the arguments and tick snapshots the routines are run on
RoutineLiquidities == {<<0>>, <<1>>, ToString(Q128 - 1)}

RoutineOwed == {Undefined, Str(<<>>), Str(ToString(Q128 - 1))}

RoutineArgs ==
  \E liq \in RoutineLiquidities, tc \in TickCases,
     global0 \in {100, 500}, global1 \in {20, NotANumber},
     last0 \in {1, 300}, owed0 \in RoutineOwed,
     lower0 \in FeeGrowthOutsideLowers, upper0 \in FeeGrowthOutsideUppers :
    /\ position = MakePosition(liq, tc, last0, 350, owed0, Str(<<7>>))
    /\ pool = MakePool(tc, global0, global1)
    /\ tickLowerFees = [feeGrowthOutside0X128 |-> lower0, feeGrowthOutside1X128 |-> 100]
    /\ tickUpperFees = [feeGrowthOutside0X128 |-> upper0, feeGrowthOutside1X128 |-> 50]

RunClmm ==
  /\ routines["clmm"].state = "pending"
  /\ routines' = [routines EXCEPT
       !["clmm"] = ClmmUncollectedFees(position, pool, tickLowerFees, tickUpperFees)]
  /\ UNCHANGED <<subVars, feeVars, scanVars, adVars, snapVars>>

RunHyperSwap ==
  /\ routines["hyperswap"].state = "pending"
  /\ routines' = [routines EXCEPT
       !["hyperswap"] = HyperSwapUncollectedFees(position, pool, tickLowerFees, tickUpperFees)]
  /\ UNCHANGED <<subVars, feeVars, scanVars, adVars, snapVars>>

RunUseV3 ==
  /\ routines["useV3"].state = "pending"
  /\ routines' = [routines EXCEPT
       !["useV3"] = useV3PositionFees(pool, position, tickLowerFees, tickUpperFees)]
  /\ UNCHANGED <<subVars, feeVars, scanVars, adVars, snapVars>>

RunDraft ==
  /\ routines["draft"].state = "pending"
  /\ routines' = [routines EXCEPT
       !["draft"] = calculateUncollectedFees(DraftPosition(position), DraftPoolData(pool))]
  /\ UNCHANGED <<subVars, feeVars, scanVars, adVars, snapVars>>

-----------------------------------------------------------------------------
\* One fee query against a pool that moves

\* the pool on chain: slot0.tick, the global counters, and ticks(tickLower) and
\* ticks(tickUpper) of the position's range 100 .. 200
ChainPool(tick, global0, global1, lower, upper) ==
  [tick |-> tick, feeGrowthGlobal0X128 |-> global0, feeGrowthGlobal1X128 |-> global1,
   lower |-> lower, upper |-> upper]

SnapIdle == poolChain = ChainPool(0, 0, 0, NoTicks, NoTicks) /\ chainSeen = <<>>

ChainPools ==
  {ChainPool(tick, global0, 20,
             [feeGrowthOutside0X128 |-> lower0, feeGrowthOutside1X128 |-> 100],
             [feeGrowthOutside0X128 |-> upper0, feeGrowthOutside1X128 |-> 50]) :
     tick \in {99, 150, 201}, global0 \in FeeGrowthGlobals,
     lower0 \in FeeGrowthOutsideLowers, upper0 \in FeeGrowthOutsideUppers}

\* what getPoolData returns for the pool as it is on chain
PoolReadFrom(c) == MakePool([tick |-> c.tick], c.feeGrowthGlobal0X128, c.feeGrowthGlobal1X128)

\* main: pool = await reader.getPoolData(...), the first read of the query
SnapGetPoolData ==
  /\ feePc = "idle"
  /\ pool' = PoolReadFrom(poolChain)
  /\ chainSeen' = <<poolChain>>
  /\ feePc' = "call"
  /\ UNCHANGED <<position, tickLowerFees, tickUpperFees, calc, fees, ticksCalls, history,
                 poolChain, subVars, scanVars, adVars, routVars>>

\* await this.getTicks(pool.address, tickLower), answered by the chain as it is
SnapGetTicksLower ==
  /\ feePc = "lower"
  /\ tickLowerFees' = poolChain.lower
  /\ ticksCalls' = Append(ticksCalls, <<pool.address, position.tickLower>>)
  /\ feePc' = "upper"
  /\ UNCHANGED <<position, pool, tickUpperFees, calc, fees, history,
                 subVars, scanVars, adVars, snapVars, routVars>>

\* await this.getTicks(pool.address, tickUpper), answered by the chain as it
\* is, then the arithmetic and the return
SnapGetTicksUpper ==
  /\ feePc = "upper"
  /\ tickUpperFees' = poolChain.upper
  /\ calc' = Locals(position, pool, tickLowerFees, tickUpperFees')
  /\ fees' = UncollectedFees(position, pool, tickLowerFees, tickUpperFees')
  /\ ticksCalls' = Append(ticksCalls, <<pool.address, position.tickUpper>>)
  /\ feePc' = "done"
  /\ UNCHANGED <<position, pool, tickLowerFees, history,
                 subVars, scanVars, adVars, snapVars, routVars>>

\* the outside growth of a tick when the price crosses it: global - outside
Crossed(c, outside) ==
  [feeGrowthOutside0X128 |-> subIn256(c.feeGrowthGlobal0X128, outside.feeGrowthOutside0X128),
   feeGrowthOutside1X128 |-> subIn256(c.feeGrowthGlobal1X128, outside.feeGrowthOutside1X128)]

QueryInFlight == feePc \in {"call", "lower", "upper"} /\ Len(chainSeen) <= MaxChainMoves

\* a swap moves the price across tickLower while the query is in flight
ChainCrossesLower ==
  /\ QueryInFlight
  /\ poolChain.tick \in {99, 150}
  /\ poolChain' = [poolChain EXCEPT !.tick = IF poolChain.tick = 150 THEN 99 ELSE 150,
                                    !.lower = Crossed(poolChain, poolChain.lower)]
  /\ chainSeen' = Append(chainSeen, poolChain')
  /\ UNCHANGED <<subVars, feeVars, scanVars, adVars, routVars>>

\* a swap moves the price across tickUpper while the query is in flight
ChainCrossesUpper ==
  /\ QueryInFlight
  /\ poolChain.tick \in {150, 201}
  /\ poolChain' = [poolChain EXCEPT !.tick = IF poolChain.tick = 150 THEN 201 ELSE 150,
                                    !.upper = Crossed(poolChain, poolChain.upper)]
  /\ chainSeen' = Append(chainSeen, poolChain')
  /\ UNCHANGED <<subVars, feeVars, scanVars, adVars, routVars>>

\* a swap inside the current tick range adds to the global counters
ChainAccrues ==
  /\ QueryInFlight
  /\ poolChain' = [poolChain EXCEPT
       !.feeGrowthGlobal0X128 = (poolChain.feeGrowthGlobal0X128 + 40) % (MAX_UINT256 + 1),
       !.feeGrowthGlobal1X128 = (poolChain.feeGrowthGlobal1X128 + 40) % (MAX_UINT256 + 1)]
  /\ chainSeen' = Append(chainSeen, poolChain')
  /\ UNCHANGED <<subVars, feeVars, scanVars, adVars, routVars>>

-----------------------------------------------------------------------------
\* Specifications

SubInit ==
  /\ subPc = "call"
  /\ subX \in SubInputs /\ subY \in SubInputs
  /\ subResult = 0
  /\ FeeIdle /\ position = MakePosition(<<0>>, [tickLower |-> 0, tickUpper |-> 0], 0, 0, Undefined, Undefined)
  /\ pool = MakePool([tick |-> 0], 0, 0)
  /\ ScanIdle /\ AdIdle /\ SnapIdle /\ RoutIdle

SubNext == SubApply

SpecSub == SubInit /\ [][SubNext]_vars

FeeInit ==
  /\ feePc = "call"
  /\ (FeeArgsValid \/ FeeArgsMalformed)
  /\ tickLowerFees = NoTicks /\ tickUpperFees = NoTicks
  /\ calc = NoLocals /\ fees = NoFees /\ ticksCalls = <<>> /\ history = <<>>
  /\ SubIdle /\ ScanIdle /\ AdIdle /\ SnapIdle /\ RoutIdle

FeeNext ==
  \/ FeeCall
  \/ FeeGetTicksLower
  \/ FeeGetTicksUpper
  \/ FeeGetTicksFails

SpecFee == FeeInit /\ [][FeeNext]_vars

\* arguments of the repeated computations: one position in range, with and
\* without liquidity
FeeArgsRepeated ==
  \E liq \in Liquidities, last0 \in {300, 350} :
    /\ position = MakePosition(liq, [tickLower |-> 100, tickUpper |-> 200, tick |-> 150],
                               last0, 300, Undefined, Str(<<7>>))
    /\ pool = MakePool([tickLower |-> 100, tickUpper |-> 200, tick |-> 150], 500, 20)

RefetchInit ==
  /\ feePc = "call"
  /\ FeeArgsRepeated
  /\ tickLowerFees = NoTicks /\ tickUpperFees = NoTicks
  /\ calc = NoLocals /\ fees = NoFees /\ ticksCalls = <<>> /\ history = <<>>
  /\ SubIdle /\ ScanIdle /\ AdIdle /\ SnapIdle /\ RoutIdle

RefetchNext ==
  \/ FeeNext
  \/ FeeRecompute

\* fee computations repeated for one position
SpecRefetch == RefetchInit /\ [][RefetchNext]_vars

RoutInit ==
  /\ RoutineArgs
  /\ feePc = "idle" /\ calc = NoLocals /\ fees = NoFees
  /\ ticksCalls = <<>> /\ history = <<>>
  /\ routines = [r \in Routines |-> NotRun]
  /\ SubIdle /\ ScanIdle /\ AdIdle /\ SnapIdle

RoutNext ==
  \/ RunClmm
  \/ RunHyperSwap
  \/ RunUseV3
  \/ RunDraft

\* the fee routines run on the same arguments and tick snapshots
SpecRoutines == RoutInit /\ [][RoutNext]_vars

SnapInit ==
  /\ poolChain \in ChainPools /\ chainSeen = <<>>
  /\ feePc = "idle"
  /\ position = MakePosition(ToString(Q128 - 1), [tickLower |-> 100, tickUpper |-> 200],
                             300, 300, Undefined, Undefined)
  /\ pool = MakePool([tick |-> 0], 0, 0)
  /\ tickLowerFees = NoTicks /\ tickUpperFees = NoTicks
  /\ calc = NoLocals /\ fees = NoFees /\ ticksCalls = <<>> /\ history = <<>>
  /\ SubIdle /\ ScanIdle /\ AdIdle /\ RoutIdle

SnapNext ==
  \/ SnapGetPoolData
  \/ FeeCall
  \/ SnapGetTicksLower
  \/ SnapGetTicksUpper
  \/ ChainCrossesLower
  \/ ChainCrossesUpper
  \/ ChainAccrues

\* one fee query of main against a pool whose state changes between the reads
SpecSnapshot == SnapInit /\ [][SnapNext]_vars

ScanInit ==
  /\ scanPc = "balanceOf" /\ balance = 0 /\ i = 0 /\ tokenId = 0
  /\ positions = <<>> /\ attempts = <<>> /\ failedCall = "" /\ scanCalls = <<>>
  /\ SubIdle
  /\ FeeIdle /\ position = MakePosition(<<0>>, [tickLower |-> 0, tickUpper |-> 0], 0, 0, Undefined, Undefined)
  /\ pool = MakePool([tick |-> 0], 0, 0)
  /\ AdIdle /\ SnapIdle /\ RoutIdle

ScanNext ==
  \/ ScanBalanceOf
  \/ ScanBalanceOfFails
  \/ ScanTokenOfOwnerByIndex
  \/ ScanTokenOfOwnerByIndexFails
  \/ ScanGetPosition
  \/ ScanGetPositionFails

\* every awaited call of the scan settles: it resolves or it rejects
FairSpecScan == ScanInit /\ [][ScanNext]_vars /\ WF_vars(ScanNext)

SpecScan == ScanInit /\ [][ScanNext]_vars

AdInit(sched, chains) ==
  /\ kind \in {"hyperswap", "kittenswap"}
  /\ schedule = sched
  /\ chain \in chains
  /\ factoryAddress = "" /\ factoryContract = ""
  /\ ops = [p \in Procs |-> IdleOp]
  /\ SubIdle /\ ScanIdle /\ SnapIdle /\ RoutIdle
  /\ FeeIdle /\ position = MakePosition(<<0>>, [tickLower |-> 0, tickUpper |-> 0], 0, 0, Undefined, Undefined)
  /\ pool = MakePool([tick |-> 0], 0, 0)

AdNext ==
  \/ \E p \in Procs : OpStart(p)
  \/ \E p \in Procs : FactoryResolves(p)
  \/ \E p \in Procs : PositionsResolves(p)
  \/ \E p \in Procs : GetPoolResolves(p)
  \/ \E p \in Procs : Slot0Resolves(p)
  \/ \E p \in Procs : PoolStateResolves(p)
  \/ \E p \in Procs : TokensResolve(p)
  \/ \E p \in Procs : FeeResolves(p)
  \/ \E p \in Procs : CallFails(p)

SeqNext ==
  \/ AdNext
  \/ ChainChanges

\* one operation on a fresh instance
SpecAdapter == AdInit("single", Chains) /\ [][AdNext]_vars

\* operations one after another on one instance
SpecSequential == AdInit("sequential", SmallChains) /\ [][SeqNext]_vars

\* operations interleaved at their awaits on one instance
SpecConcurrent ==
  AdInit("concurrent", {c \in SmallChains : c.poolAddress # ZeroAddress}) /\ [][AdNext]_vars

-----------------------------------------------------------------------------
\* Properties

\* 2^256 in the model's width
TwoTo256 == 2 ^ (2 * HalfBits)

\* the amount a decimal string denotes, read from its most significant digit
RECURSIVE DecimalValue(_, _)
DecimalValue(s, acc) ==
  IF s = <<>> THEN acc ELSE DecimalValue(Tail(s), acc * 10 + Head(s))

\* the owed amount of an optional decimal string; absent counts as 0
OwedAmount(o) == IF o.defined THEN DecimalValue(o.str, 0) ELSE 0

FeeFullPath == feePc = "done" /\ position.liquidity # <<0>>

\* C1: subIn256(x, y) for 0 <= x, y < 2^256 is x - y when x >= y and
\* 2^256 - y + x otherwise, that is (x - y) mod 2^256; subIn256(x, x) is 0.
C1_SubIn256Wraps ==
  subPc = "done" =>
    /\ subX >= subY => subResult = subX - subY
    /\ subX < subY => subResult = TwoTo256 - subY + subX
    /\ subResult = (subX - subY) % TwoTo256
    /\ subX = subY => subResult = 0
    /\ subResult \in 0 .. MAX_UINT256

C1_Witness ==
  /\ subPc = "done" /\ subX = 0 /\ subY = MAX_UINT256 /\ subResult = 1

\* C2: for a position whose liquidity is "0" the call returns exactly
\* (tokensOwed0, tokensOwed1), an absent amount counting as 0, without reading
\* any tick and whatever the fee-growth counters are, malformed ones included.
C2_ZeroLiquidityReturnsOwed ==
  (position.liquidity = <<0>> /\ feePc # "call") =>
    /\ feePc = "done"
    /\ fees.token0Fees = OwedAmount(position.tokensOwed0)
    /\ fees.token1Fees = OwedAmount(position.tokensOwed1)
    /\ ticksCalls = <<>>

C2_Witness ==
  /\ feePc = "done" /\ position.liquidity = <<0>>
  /\ pool.feeGrowthGlobal0X128 = NotANumber
  /\ position.feeGrowthInside1LastX128 = NotANumber
  /\ position.tokensOwed0 = Str(<<7>>) /\ fees.token0Fees = 7
  /\ position.tokensOwed1 = Undefined /\ fees.token1Fees = 0

\* C3: feeGrowthBelow_i is the lower tick's feeGrowthOutside_i when
\* pool.tick >= tickLower (equality included) and
\* subIn256(feeGrowthGlobal_i, feeGrowthOutside_i) when pool.tick < tickLower.
C3_FeeGrowthBelow ==
  FeeFullPath =>
    /\ pool.tick >= position.tickLower =>
         /\ calc.feeGrowthBelow0X128 = tickLowerFees.feeGrowthOutside0X128
         /\ calc.feeGrowthBelow1X128 = tickLowerFees.feeGrowthOutside1X128
    /\ pool.tick < position.tickLower =>
         /\ calc.feeGrowthBelow0X128 =
              subIn256(pool.feeGrowthGlobal0X128, tickLowerFees.feeGrowthOutside0X128)
         /\ calc.feeGrowthBelow1X128 =
              subIn256(pool.feeGrowthGlobal1X128, tickLowerFees.feeGrowthOutside1X128)

C3_Witness ==
  /\ FeeFullPath
  /\ position.tickLower = 100 /\ position.tickUpper = 200 /\ pool.tick = 100
  /\ pool.feeGrowthGlobal0X128 = 500
  /\ tickLowerFees.feeGrowthOutside0X128 = 100
  /\ calc.feeGrowthBelow0X128 = 100

\* C4: feeGrowthAbove_i is the upper tick's feeGrowthOutside_i when
\* pool.tick < tickUpper and subIn256(feeGrowthGlobal_i, feeGrowthOutside_i) when
\* pool.tick >= tickUpper; at pool.tick = tickUpper the subtracted form is used.
C4_FeeGrowthAbove ==
  FeeFullPath =>
    /\ pool.tick < position.tickUpper =>
         /\ calc.feeGrowthAbove0X128 = tickUpperFees.feeGrowthOutside0X128
         /\ calc.feeGrowthAbove1X128 = tickUpperFees.feeGrowthOutside1X128
    /\ pool.tick >= position.tickUpper =>
         /\ calc.feeGrowthAbove0X128 =
              subIn256(pool.feeGrowthGlobal0X128, tickUpperFees.feeGrowthOutside0X128)
         /\ calc.feeGrowthAbove1X128 =
              subIn256(pool.feeGrowthGlobal1X128, tickUpperFees.feeGrowthOutside1X128)

C4_Witness ==
  /\ FeeFullPath
  /\ position.tickLower = 100 /\ position.tickUpper = 200 /\ pool.tick = 200
  /\ pool.feeGrowthGlobal0X128 = 500
  /\ tickUpperFees.feeGrowthOutside0X128 = 50
  /\ calc.feeGrowthAbove0X128 = 450
  /\ calc.feeGrowthBelow0X128 = tickLowerFees.feeGrowthOutside0X128

\* the fee of one token by the formula of steps 4 to 6, in modular arithmetic
ExpectedFee(global, below, above, last, liquidity, owed) ==
  LET inside == (global - below - above) % TwoTo256
      delta == (inside - last) % TwoTo256
  IN  ((delta * DecimalValue(liquidity, 0)) \div Q128) + OwedAmount(owed)

\* C5: with liquidity other than "0" the result for token i is
\* floor(subIn256(feeGrowthInside_i, feeGrowthInsideLast_i) * liquidity / 2^128)
\* + tokensOwed_i, where feeGrowthInside_i = global_i - below_i - above_i
\* modulo 2^256 and an absent tokensOwed_i counts as 0.
C5_FeeFormula ==
  FeeFullPath =>
    /\ fees.token0Fees =
         ExpectedFee(pool.feeGrowthGlobal0X128, calc.feeGrowthBelow0X128,
                     calc.feeGrowthAbove0X128, position.feeGrowthInside0LastX128,
                     position.liquidity, position.tokensOwed0)
    /\ fees.token1Fees =
         ExpectedFee(pool.feeGrowthGlobal1X128, calc.feeGrowthBelow1X128,
                     calc.feeGrowthAbove1X128, position.feeGrowthInside1LastX128,
                     position.liquidity, position.tokensOwed1)

\* global 500, outside-lower 100, outside-upper 50, tick inside, inside-last 300,
\* liquidity 2^128, owed 7: the fee is 57
C5_Witness ==
  /\ FeeFullPath
  /\ pool.feeGrowthGlobal0X128 = 500
  /\ tickLowerFees.feeGrowthOutside0X128 = 100
  /\ tickUpperFees.feeGrowthOutside0X128 = 50
  /\ position.tickLower = 100 /\ pool.tick = 150 /\ position.tickUpper = 200
  /\ position.feeGrowthInside0LastX128 = 300
  /\ position.liquidity = ToString(Q128)
  /\ position.tokensOwed0 = Str(<<7>>)
  /\ calc.feeGrowthInside0X128 = 350
  /\ fees.token0Fees = 57

\* C6: with liquidity other than "0", when the derived feeGrowthInside_i equals
\* the position's feeGrowthInsideLast_i, nothing accrued for token i and the
\* result for token i is tokensOwed_i.
C6_NoAccrual ==
  FeeFullPath =>
    /\ calc.feeGrowthInside0X128 = position.feeGrowthInside0LastX128 =>
         /\ calc.feesToken0 = 0
         /\ fees.token0Fees = OwedAmount(position.tokensOwed0)
    /\ calc.feeGrowthInside1X128 = position.feeGrowthInside1LastX128 =>
         /\ calc.feesToken1 = 0
         /\ fees.token1Fees = OwedAmount(position.tokensOwed1)

C6_Witness ==
  /\ FeeFullPath
  /\ position.liquidity = ToString(Q128)
  /\ calc.feeGrowthInside0X128 = 350
  /\ position.feeGrowthInside0LastX128 = 350
  /\ position.tokensOwed0 = Str(<<7>>)
  /\ fees.token0Fees = 7
  /\ calc.feeGrowthInside1X128 # position.feeGrowthInside1LastX128
  /\ fees.token1Fees > 7

\* the arguments and tick answers with every token1 field replaced
WithToken1(pos, pl, lowerFees, upperFees, global1, last1, owed1, lower1, upper1) ==
  [pos |-> [pos EXCEPT !.feeGrowthInside1LastX128 = last1, !.tokensOwed1 = owed1],
   pl |-> [pl EXCEPT !.feeGrowthGlobal1X128 = global1],
   lowerFees |-> [lowerFees EXCEPT !.feeGrowthOutside1X128 = lower1],
   upperFees |-> [upperFees EXCEPT !.feeGrowthOutside1X128 = upper1]]

\* the arguments and tick answers with every token0 field replaced
WithToken0(pos, pl, lowerFees, upperFees, global0, last0, owed0, lower0, upper0) ==
  [pos |-> [pos EXCEPT !.feeGrowthInside0LastX128 = last0, !.tokensOwed0 = owed0],
   pl |-> [pl EXCEPT !.feeGrowthGlobal0X128 = global0],
   lowerFees |-> [lowerFees EXCEPT !.feeGrowthOutside0X128 = lower0],
   upperFees |-> [upperFees EXCEPT !.feeGrowthOutside0X128 = upper0]]

RunOn(args) == UncollectedFees(args.pos, args.pl, args.lowerFees, args.upperFees)

\* C7: the token0 fee depends only on liquidity, the ticks and the token0 fields:
\* a second run that differs only in token1 fields returns the same token0 fee,
\* symmetrically for token1, and both tokens are computed by one formula (a run
\* whose token1 fields are the token0 fields returns the token0 fee as token1 fee).
\* Every run is compared with the run whose other-token fields are a fixed tuple,
\* so any two runs that differ only in those fields agree.
C7_TokenIndependence ==
  FeeFullPath =>
    /\ RunOn(WithToken1(position, pool, tickLowerFees, tickUpperFees,
                        500, 300, Undefined, 100, 50)).token0Fees
         = fees.token0Fees
    /\ RunOn(WithToken0(position, pool, tickLowerFees, tickUpperFees,
                        500, 300, Undefined, 100, 50)).token1Fees
         = fees.token1Fees
    /\ RunOn(WithToken1(position, pool, tickLowerFees, tickUpperFees,
                        pool.feeGrowthGlobal0X128, position.feeGrowthInside0LastX128,
                        position.tokensOwed0, tickLowerFees.feeGrowthOutside0X128,
                        tickUpperFees.feeGrowthOutside0X128)).token1Fees
         = fees.token0Fees

C7_Witness ==
  /\ FeeFullPath
  /\ pool.feeGrowthGlobal0X128 = 500 /\ pool.feeGrowthGlobal1X128 = 20
  /\ position.feeGrowthInside0LastX128 = 300
  /\ position.feeGrowthInside1LastX128 = 350
  /\ fees.token0Fees = 57
  /\ fees.token1Fees # 57

\* the positions of the attempts that resolved and pass the claim's filter
\* (liquidity greater than 0), in the order of the attempts
RECURSIVE ResolvedWithLiquidity(_)
ResolvedWithLiquidity(as) ==
  IF as = <<>> THEN <<>>
  ELSE LET a == Head(as)
           rest == ResolvedWithLiquidity(Tail(as))
       IN  IF a.ok /\ DecimalValue(a.position.liquidity, 0) > 0
           THEN <<a.position>> \o rest
           ELSE rest

\* C8: a getPosition failure at index i does not abort the scan: the scan goes
\* on with index i + 1, every index 0 .. balance - 1 is attempted once, in order,
\* and the returned sequence holds, in index order, the results of the other
\* indices.
C8_GetPositionFailureIsolated ==
  /\ failedCall # "getPosition"
  /\ scanPc \in {"tokenOfOwnerByIndex", "getPosition", "returned"} =>
       /\ i = Len(attempts)
       /\ \A k \in 1 .. Len(attempts) : attempts[k].index = k - 1
  /\ scanPc = "returned" =>
       /\ Len(attempts) = balance
       /\ positions = ResolvedWithLiquidity(attempts)

\* index 2 of 5 fails: the results of indices 0, 1, 3, 4 are returned
C8_Witness ==
  /\ scanPc = "returned" /\ balance = 5
  /\ ~attempts[3].ok /\ attempts[3].index = 2
  /\ \A k \in {1, 2, 4, 5} : attempts[k].ok
  /\ Len(positions) = 4
  /\ <<positions[1].id, positions[2].id, positions[3].id, positions[4].id>>
       = <<ToString(OwnedTokenId(0)), ToString(OwnedTokenId(1)),
           ToString(OwnedTokenId(3)), ToString(OwnedTokenId(4))>>

\* C9: a failure of the id fetch at index i (tokenOfOwnerByIndex) is caught and
\* skipped and does not abort the scan.
C9_IdFetchFailureIsolated ==
  ~(scanPc = "thrown" /\ failedCall = "tokenOfOwnerByIndex")

\* C10: the returned positions all have liquidity greater than 0, every resolved
\* position with liquidity greater than 0 is returned, and the returned positions
\* are in ascending owner-index order.
C10_ReturnsOnlyLiquid ==
  scanPc = "returned" =>
    /\ \A k \in 1 .. Len(positions) : DecimalValue(positions[k].liquidity, 0) > 0
    /\ \A a \in 1 .. Len(attempts) :
         (attempts[a].ok /\ DecimalValue(attempts[a].position.liquidity, 0) > 0)
           => \E k \in 1 .. Len(positions) : positions[k] = attempts[a].position
    /\ \A j, k \in 1 .. Len(positions) :
         j < k => \E a, b \in 1 .. Len(attempts) :
                    /\ a < b
                    /\ attempts[a].ok /\ attempts[a].position = positions[j]
                    /\ attempts[b].ok /\ attempts[b].position = positions[k]

C10_Witness ==
  /\ scanPc = "returned" /\ balance = 4
  /\ \A k \in 1 .. 4 : attempts[k].ok
  /\ attempts[2].position.liquidity = <<0>>
  /\ attempts[4].position.liquidity = <<0>>
  /\ Len(positions) = 2
  /\ positions[1] = attempts[1].position
  /\ positions[2] = attempts[3].position

\* the factory() calls an operation has issued
FactoryCallsOf(o) ==
  Cardinality({k \in DOMAIN o.calls : o.calls[k].method = "factory"})

RECURSIVE FactoryCallsIn(_, _)
\* the factory() calls issued by the first n operations of os
FactoryCallsIn(os, n) ==
  IF n = 0 THEN 0 ELSE FactoryCallsOf(os[n]) + FactoryCallsIn(os, n - 1)

\* C11: when several operations are started on one instance before the factory
\* address is set, at most one factory() call is issued in total, under every
\* interleaving of their suspension points.
C11_AtMostOneFactoryCall ==
  schedule = "concurrent" => FactoryCallsIn(ops, MaxOps) <= 1

\* C12 as stated: in a run where operations are executed one after another,
\* factory() is called at most once.
C12_FactoryCalledAtMostOnce ==
  schedule = "sequential" =>
    \A p, q \in Procs :
      (FactoryCallsOf(ops[p]) > 0 /\ FactoryCallsOf(ops[q]) > 0) => p = q

\* C12, amended: in a run where operations are executed one after another, once
\* factory() has resolved no further factory() call is issued, the cached address
\* and contract stay as they are, and every getPool / tickSpacingToFee call goes
\* to the contract built from the cached address.
C12_FactoryMemoised ==
  [][ /\ factoryAddress # "" =>
           /\ FactoryCallsIn(ops', MaxOps) = FactoryCallsIn(ops, MaxOps)
           /\ factoryAddress' = factoryAddress
           /\ factoryContract' = factoryContract
      /\ \A p \in Procs : \A k \in DOMAIN ops'[p].calls :
           ops'[p].calls[k].method \in {"getPool", "tickSpacingToFee"}
             => ops'[p].calls[k].to = factoryAddress' ]_vars

C12_Witness ==
  /\ schedule = "sequential"
  /\ ops[1].pc = "returned" /\ FactoryCallsOf(ops[1]) = 1
  /\ ops[2].pc = "returned" /\ ops[2].op \in {"getPosition", "getPoolData"}
  /\ FactoryCallsOf(ops[2]) = 0
  /\ \E k \in DOMAIN ops[2].calls :
       ops[2].calls[k] = Call(factoryAddress, "getPool")

\* the getTicks calls of one computation of the current position
LowerCall == <<pool.address, position.tickLower>>

UpperCall == <<pool.address, position.tickUpper>>

C19_TicksFetchedAnew ==
  (feePc = "done" /\ position.liquidity # <<0>>) =>
    /\ ticksCalls = <<LowerCall, UpperCall>>
    /\ \A k \in DOMAIN history : history[k].calls = <<LowerCall, UpperCall>>

C19_Witness ==
  /\ feePc = "done" /\ position.liquidity # <<0>>
  /\ Len(history) = 1
  /\ history[1].calls = ticksCalls /\ Len(ticksCalls) = 2
  /\ history[1].tickLower # tickLowerFees
  /\ history[1].tickUpper # tickUpperFees
  /\ history[1].fees # fees

\* how often call c was issued by operation o
TimesIssued(o, c) == Cardinality({k \in DOMAIN o.calls : o.calls[k] = c})

\* the calls of operation o with the given method
CallsTo(o, method) == {k \in DOMAIN o.calls : o.calls[k].method = method}

\* C14: when the factory answers the zero address, getPoolData (of both
\* managers) fails with the pool-not-found error without any pool-state or
\* token call, and it never returns a PoolData whose address is the zero address.
C14_MissingPoolRejected ==
  \A p \in Procs :
    ops[p].op = "getPoolData" =>
      /\ ops[p].poolAddress = ZeroAddress =>
           /\ ops[p].pc = "thrown" /\ ops[p].error = "Pool does not exist"
           /\ ops[p].result = NoResult
           /\ \A k \in DOMAIN ops[p].calls :
                ops[p].calls[k].method \in {"factory", "getPool"}
      /\ ops[p].pc = "returned" => ops[p].result.pool.address # ZeroAddress

C14_Witness ==
  /\ kind = "kittenswap" /\ chain.poolAddress = ZeroAddress
  /\ ops[1].op = "getPoolData" /\ ops[1].pc = "thrown"
  /\ ops[1].error = "Pool does not exist"
  /\ ops[1].calls = <<Call("positionManager", "factory"), Call("0xFactory", "getPool")>>

\* C15: HyperSwapManager.getTickSpacingForFee returns 1, 10, 60, 200 for the fees
\* 100, 500, 3000, 10000 and fails with the unknown-fee error for any other fee;
\* getFeeForTickSpacing(s) returns the fee whose spacing is s and fails with the
\* unknown-tick-spacing error for s outside {1, 10, 60, 200}.
C15_StaticFeeTable ==
  \A p \in Procs :
    (kind = "hyperswap" /\ ops[p].pc \in {"returned", "thrown"}) =>
      LET Answers(a, n) == ops[p].arg = a => (ops[p].pc = "returned" /\ ops[p].result.number = n)
      IN  /\ ops[p].op = "getTickSpacingForFee" =>
               /\ Answers(100, 1) /\ Answers(500, 10)
               /\ Answers(3000, 60) /\ Answers(10000, 200)
               /\ ops[p].arg \notin {100, 500, 3000, 10000} =>
                    (ops[p].pc = "thrown" /\ ops[p].error = "Unknown fee amount")
          /\ ops[p].op = "getFeeForTickSpacing" =>
               /\ Answers(1, 100) /\ Answers(10, 500)
               /\ Answers(60, 3000) /\ Answers(200, 10000)
               /\ ops[p].arg \notin {1, 10, 60, 200} =>
                    (ops[p].pc = "thrown" /\ ops[p].error = "Unknown tick spacing")

C15_Witness ==
  /\ kind = "hyperswap"
  /\ ops[1].op = "getFeeForTickSpacing" /\ ops[1].arg = 60
  /\ ops[1].pc = "returned" /\ ops[1].result.number = 3000

\* C16: HyperSwapManager.getTickSpacingForFee issues no collaborator call, for
\* known and unknown fees, and does not trigger the factory resolution.
C16_TableLookupIssuesNoCall ==
  (kind = "hyperswap" /\ ops[1].op = "getTickSpacingForFee") =>
    /\ ops[1].pc \in {"returned", "thrown"}
    /\ ops[1].calls = <<>>
    /\ factoryAddress = "" /\ factoryContract = ""

C16_Witness ==
  /\ kind = "hyperswap" /\ ops[1].op = "getTickSpacingForFee"
  /\ ops[1].arg = 10001 /\ ops[1].pc = "thrown" /\ ops[1].calls = <<>>

\* C17: every invocation of KittenswapManager.getFeeForTickSpacing that returns
\* has queried tickSpacingToFee exactly once and returns the fee the factory
\* answered to that query, never a value remembered from an earlier invocation.
C17_FeeQueriedEveryTime ==
  [][ \A p \in Procs :
        ( /\ kind = "kittenswap" /\ ops'[p].op = "getFeeForTickSpacing"
          /\ ops[p].pc # "returned" /\ ops'[p].pc = "returned" )
        => /\ Cardinality(CallsTo(ops'[p], "tickSpacingToFee")) = 1
           /\ ops[p].pc = "fee"
           /\ ops'[p].result.number = chain.tickSpacingToFee ]_vars

C17_Witness ==
  /\ kind = "kittenswap"
  /\ \A p \in {1, 2} :
       /\ ops[p].op = "getFeeForTickSpacing" /\ ops[p].arg = 200
       /\ ops[p].pc = "returned"
       /\ Cardinality(CallsTo(ops[p], "tickSpacingToFee")) = 1
  /\ FactoryCallsOf(ops[2]) = 0
  /\ ops[1].result.number = 200 /\ ops[2].result.number = 2500

\* C18: a failed collaborator call in getPosition or getPoolData fails the
\* operation at once: the call was issued once and is not issued again, and no
\* snapshot is returned.
C18_FailurePropagates ==
  \A p \in Procs :
    (ops[p].op \in {"getPosition", "getPoolData"} /\ ops[p].failed # <<>>) =>
      /\ ops[p].pc = "thrown"
      /\ ops[p].result = NoResult
      /\ TimesIssued(ops[p], ops[p].failed[1]) = 1

C18_Witness ==
  /\ ops[1].op = "getPosition" /\ ops[1].pc = "thrown"
  /\ ops[1].failed = <<Call("0xPool", "slot0")>>
  /\ ops[1].calls = <<Call("positionManager", "factory"),
                      Call("positionManager", "positions"),
                      Call("0xFactory", "getPool"), Call("0xPool", "slot0")>>

\* C20: every PositionInfo returned by getPosition has tickLower < tickUpper.
C20_TicksOrdered ==
  \A p \in Procs :
    (ops[p].op = "getPosition" /\ ops[p].pc = "returned") =>
      ops[p].result.position.tickLower < ops[p].result.position.tickUpper

\* C22: when the factory answers the zero address for the position's pool,
\* getPosition signals that the pool does not exist and issues no call against
\* the zero address.
C22_MissingPoolOfPosition ==
  \A p \in Procs :
    (ops[p].op = "getPosition" /\ ops[p].poolAddress = ZeroAddress) =>
      /\ ops[p].pc = "thrown" /\ ops[p].error = "Pool does not exist"
      /\ \A k \in DOMAIN ops[p].calls : ops[p].calls[k].to # ZeroAddress

\* C27: under every interleaving, the factory contract is assigned whenever it
\* is used for getPool or tickSpacingToFee, and a non-empty factoryAddress comes
\* with the contract built from that address.
C27_FactoryCacheSafe ==
  /\ factoryAddress # "" => factoryContract = factoryAddress
  /\ \A p \in Procs :
       /\ ops[p].error # "TypeError"
       /\ \A k \in CallsTo(ops[p], "getPool") \cup CallsTo(ops[p], "tickSpacingToFee") :
            ops[p].calls[k].to # "" /\ ops[p].calls[k].to = factoryContract

C27_Witness ==
  /\ schedule = "concurrent"
  /\ FactoryCallsOf(ops[1]) = 1 /\ ops[1].pc = "positions"
  /\ FactoryCallsOf(ops[2]) = 0 /\ ops[2].op = "getPoolData"
  /\ ops[2].calls = <<Call(factoryContract, "getPool")>>

\* C28: when factory() fails, factoryAddress stays empty and factoryContract
\* unassigned, the invoking operation fails, and the next operation on the
\* instance that needs the factory issues a fresh factory() call.
C28_FailedResolutionNotMemoised ==
  [][ \A p \in Procs :
        /\ (ops[p].pc = "factory" /\ ops'[p].pc = "thrown") =>
             /\ factoryAddress' = factoryAddress /\ factoryContract' = factoryContract
             /\ ops'[p].failed = <<Call("positionManager", "factory")>>
             /\ ops'[p].result = NoResult
        /\ ( /\ ops[p].pc = "idle" /\ ops'[p].pc # "idle"
             /\ factoryAddress' = ""
             /\ \E q \in Procs : ops[q].failed = <<Call("positionManager", "factory")>>
             /\ ~(ops'[p].op = "getTickSpacingForFee")
             /\ ~(ops'[p].op = "getFeeForTickSpacing" /\ kind = "hyperswap") )
           => ops'[p].calls = <<Call("positionManager", "factory")>> ]_vars

C28_Witness ==
  /\ schedule = "sequential"
  /\ ops[1].pc = "thrown" /\ ops[1].failed = <<Call("positionManager", "factory")>>
  /\ ops[2].op = "getPoolData" /\ ops[2].pc = "returned"
  /\ FactoryCallsOf(ops[2]) = 1
  /\ factoryAddress = "0xFactory"

\* C26: for every PositionInfo returned by getPosition, inRange is true exactly
\* when the fee engine, for pool.tick = currentTick, uses both boundary
\* outside-growth values directly (tickLower <= currentTick < tickUpper); a
\* position with currentTick = tickUpper is not reported as in range.
C26_InRangeMatchesEngine ==
  \A p \in Procs :
    (ops[p].op = "getPosition" /\ ops[p].pc = "returned") =>
      LET pos == ops[p].result.position
      IN  pos.inRange <=> (pos.tickLower <= pos.currentTick /\ pos.currentTick < pos.tickUpper)

IsBalanceOf(c) == c[1] = "balanceOf"

IsIdFetch(c) == c[1] = "tokenOfOwnerByIndex"

IsGetPosition(c) == c[1] = "getPosition"

\* the calls of the scan so far are those of one pass over the indices
OnePassOverIndices ==
  LET counts == SelectSeq(scanCalls, IsBalanceOf)
      ids == SelectSeq(scanCalls, IsIdFetch)
      gets == SelectSeq(scanCalls, IsGetPosition)
  IN  /\ Len(counts) <= 1
      /\ scanCalls # <<>> => IsBalanceOf(scanCalls[1])
      /\ Len(ids) <= balance
      /\ \A k \in DOMAIN ids : ids[k][2] = k - 1
      /\ Len(gets) <= Len(ids)
      /\ \A k \in DOMAIN gets : gets[k][2] = OwnedTokenId(k - 1)
      /\ Len(positions) <= Len(gets)
      /\ scanPc = "returned" =>
           /\ Len(counts) = 1 /\ Len(ids) = balance /\ Len(gets) = balance
           /\ Len(positions) <= balance

\* C30: getPositionsForWallet reads the count once, fetches the id of each index
\* 0 .. count - 1 once, in ascending order, calls getPosition at most once per
\* index, never revisits an index, returns at most count positions, and ends.
C30_ScanTerminates ==
  /\ []OnePassOverIndices
  /\ <>(scanPc \in {"returned", "thrown"})

C30_Witness ==
  /\ scanPc = "returned" /\ balance = 3
  /\ Len(scanCalls) = 7
  /\ ~attempts[2].ok
  /\ Len(positions) = 2

\* the current computation with both global counters replaced by g
WithGlobals(g) ==
  UncollectedFees(position,
                  [pool EXCEPT !.feeGrowthGlobal0X128 = g, !.feeGrowthGlobal1X128 = g],
                  tickLowerFees, tickUpperFees)

\* C23: with tickLower < tickUpper and liquidity other than 0, below the range
\* feeGrowthInside_i is outsideLower_i - outsideUpper_i and at or above the range
\* it is outsideUpper_i - outsideLower_i (modulo 2^256), and the fees are those of
\* the run with any other global counter.
C23_OutOfRangeIgnoresGlobal ==
  (FeeFullPath /\ position.tickLower < position.tickUpper) =>
    LET lower0 == tickLowerFees.feeGrowthOutside0X128
        lower1 == tickLowerFees.feeGrowthOutside1X128
        upper0 == tickUpperFees.feeGrowthOutside0X128
        upper1 == tickUpperFees.feeGrowthOutside1X128
    IN  /\ pool.tick < position.tickLower =>
             /\ calc.feeGrowthInside0X128 = (lower0 - upper0) % TwoTo256
             /\ calc.feeGrowthInside1X128 = (lower1 - upper1) % TwoTo256
             /\ fees = WithGlobals(77)
        /\ pool.tick >= position.tickUpper =>
             /\ calc.feeGrowthInside0X128 = (upper0 - lower0) % TwoTo256
             /\ calc.feeGrowthInside1X128 = (upper1 - lower1) % TwoTo256
             /\ fees = WithGlobals(77)

C23_Witness ==
  /\ FeeFullPath /\ pool.tick = 201 /\ position.tickUpper = 200
  /\ pool.feeGrowthGlobal0X128 = 20
  /\ tickLowerFees.feeGrowthOutside0X128 = 100
  /\ tickUpperFees.feeGrowthOutside0X128 = 50
  /\ calc.feeGrowthInside0X128 = TwoTo256 - 50
  /\ fees.token0Fees > OwedAmount(position.tokensOwed0)

\* C21: in every fee routine each difference of two fee-growth counters is
\* taken modulo 2^256: no returned fee is negative, and the draft's fee is that
\* of the wrapped difference, also when the global counter is numerically
\* smaller than the position's last counter.
C21_DifferencingModular ==
  /\ \A r \in Routines :
       routines[r].state = "returned" =>
         /\ routines[r].token0 >= 0 /\ routines[r].token1 >= 0
         /\ DecimalValue(routines[r].amount0, 0) >= 0
         /\ DecimalValue(routines[r].amount1, 0) >= 0
  /\ routines["draft"].state = "returned" =>
       routines["draft"].token0 =
         (((pool.feeGrowthGlobal0X128 - position.feeGrowthInside0LastX128) % TwoTo256)
             * DecimalValue(position.liquidity, 0)) \div Q128
           + OwedAmount(position.tokensOwed0)

AllThreeRan ==
  \A r \in {"clmm", "hyperswap", "useV3"} : routines[r].state # "pending"

\* the three routines ended alike: all threw, or all returned the same amounts
SameReport ==
  /\ routines["hyperswap"] = routines["clmm"]
  /\ routines["useV3"].state = routines["clmm"].state
  /\ routines["clmm"].state = "returned" =>
       /\ DecimalValue(routines["useV3"].amount0, 0) = routines["clmm"].token0
       /\ DecimalValue(routines["useV3"].amount1, 0) = routines["clmm"].token1

\* C24 as stated: for every position, pool and pair of tick snapshots the
\* three routines report the same token0 and token1 amounts.
C24_RoutinesAgree == AllThreeRan => SameReport

\* C24, amended: the two calculateUncollectedFees routines always end alike;
\* useV3PositionFees reports the same amounts whenever tokensOwed0 and
\* tokensOwed1 are present and the fee-growth counters are numbers.
C24_RoutinesAgreeOnPositionInfo ==
  AllThreeRan =>
    /\ routines["hyperswap"] = routines["clmm"]
    /\ ( /\ position.tokensOwed0.defined /\ position.tokensOwed1.defined
         /\ ~ConversionThrows(position, pool) )
       => (SameReport /\ routines["clmm"].state = "returned")

C24_Witness ==
  /\ AllThreeRan /\ routines["clmm"].state = "returned"
  /\ position.liquidity # <<0>> /\ pool.tick = 200 /\ position.tickUpper = 200
  /\ position.tokensOwed0 = Str(<<>>)
  /\ DecimalValue(routines["useV3"].amount0, 0) = routines["clmm"].token0
  /\ routines["clmm"].token0 > 0

\* C25: with fee-growth counters in [0, 2^256), liquidity in [0, 2^128) and
\* tokensOwed in [0, 2^128), each fee calculateUncollectedFees returns lies in
\* [0, 2^256).
C25_ResultFitsU256 ==
  \A r \in {"clmm", "hyperswap"} :
    ( /\ routines[r].state = "returned"
      /\ DecimalValue(position.liquidity, 0) < Q128
      /\ OwedAmount(position.tokensOwed0) < Q128
      /\ OwedAmount(position.tokensOwed1) < Q128
      /\ \A c \in {pool.feeGrowthGlobal0X128, pool.feeGrowthGlobal1X128,
                   position.feeGrowthInside0LastX128, position.feeGrowthInside1LastX128,
                   tickLowerFees.feeGrowthOutside0X128, tickLowerFees.feeGrowthOutside1X128,
                   tickUpperFees.feeGrowthOutside0X128, tickUpperFees.feeGrowthOutside1X128} :
           c \in 0 .. MAX_UINT256 )
    => /\ routines[r].token0 \in 0 .. TwoTo256 - 1
       /\ routines[r].token1 \in 0 .. TwoTo256 - 1

C25_Witness ==
  /\ routines["clmm"].state = "returned"
  /\ position.liquidity = ToString(Q128 - 1)
  /\ position.tokensOwed0 = Str(ToString(Q128 - 1))
  /\ routines["clmm"].token0 = TwoTo256 - 2

\* the fees the algorithm gives for the position when every read sees chain state c
FeesAt(c) == UncollectedFees(position, PoolReadFrom(c), c.lower, c.upper)

\* C29: although the pool state and the two tick snapshots are read at
\* different times, the returned fees are the fees the algorithm gives for some
\* single chain state that existed between the first and the last read.
C29_SnapshotConsistent ==
  (feePc = "done" /\ chainSeen # <<>>) =>
    \E k \in DOMAIN chainSeen : fees = FeesAt(chainSeen[k])

====
